---- MODULE Spec2Model ----
(***************************************************************************)
(* State-machine model of src/blackjack.py: the Card, Shoe, Hand, Dealer,  *)
(* Player and Game classes and the main loop that drives them.            *)
(*                                                                         *)
(* A state is taken at each point where the program waits for input (a     *)
(* bet, an action for a hand, "Play again?") and at each draw of the       *)
(* dealer's turn.  Money is a float in the program and only ever holds     *)
(* multiples of 0.5 (bets are ints, the one fractional credit is           *)
(* bet * 1.5); the model keeps every amount of money in half units, so     *)
(* 1000.0 is 2000 and a bet b is 2 * b.  A hand's bet stays an integer in  *)
(* whole units, as in the program.                                         *)
(***************************************************************************)
EXTENDS Integers, Sequences, FiniteSets

VARIABLES
    shoe,      \* Game.shoe: [cards: rank ordinal -> copies left, shuffled]
    players,   \* Game.players: sequence of [hands, money, blackjack]
    dealer,    \* Game.dealer: [hands]
    pc,        \* where main() is
    turn,      \* [player, hand]: whose bet / which hand is being prompted
    round,     \* number of times main() has called game.reset()
    money0,    \* history: each player's money when the round was reset
    printed,   \* the result lines do_results printed since the last clear
    input      \* what the last step read from input(): [keys, number]

vars == <<shoe, players, dealer, pc, turn, round, money0, printed, input>>

\* all of the state but the input read
game == <<shoe, players, dealer, pc, turn, round, money0, printed>>

(***************************************************************************)
(* Bounds of the exploration.                                              *)
(***************************************************************************)
\* the numbers of players entered at "Number of players:"
PlayerCounts == {0, 1, 2}

\* rounds main() may play before "Play again?" is answered y no more: a game
\* of two players is explored for one round
MaxRounds == 2

RoundsOf(num_players) == IF num_players <= 1 THEN MaxRounds ELSE 1

\* the rank ordinals the shuffled shoe is explored to deliver: aces, 8s and
\* 10s to one player and the dealer, aces and 10s to two players
DealtRanks == IF Len(players) <= 1 THEN {1, 8, 10} ELSE {1, 10}

\* the integers entered at a bet prompt
BetAmounts == {-1, 500, 1001}

(***************************************************************************)
(* class Card                                                              *)
(***************************************************************************)
Ranks == 1..13

Numerals == <<"1", "2", "3", "4", "5", "6", "7", "8", "9", "10">>

\* Card.__init__
Card(card) ==
    IF card = 1 THEN [value |-> 11, type |-> "A"]
    ELSE IF card <= 10 THEN [value |-> card, type |-> Numerals[card]]
    ELSE IF card = 11 THEN [value |-> 10, type |-> "J"]
    ELSE IF card = 12 THEN [value |-> 10, type |-> "Q"]
    ELSE [value |-> 10, type |-> "K"]

(***************************************************************************)
(* class Shoe.  The list of cards is kept as the number of copies of each  *)
(* rank left in it; a shuffled list pops any card that is left.            *)
(***************************************************************************)
Max(a, b) == IF a >= b THEN a ELSE b

\* a Shoe that leaves out the four passes of its first deck
ShoeOneDeckShort(num_decks) ==
    [cards |-> [r \in 1..13 |-> IF num_decks > 1 THEN (num_decks - 1) * 4 ELSE 0],
     shuffled |-> FALSE]

\* Shoe.__init__: range(num_decks * 4) passes over the 13 ranks
Shoe(num_decks) ==
    [cards |-> [r \in Ranks |-> Max(num_decks * 4, 0)], shuffled |-> FALSE]

\* Shoe.shuffle
shuffle(s) == [s EXCEPT !.shuffled = TRUE]

RECURSIVE SumTo(_, _)
SumTo(f, n) == IF n = 0 THEN 0 ELSE f[n] + SumTo(f, n - 1)

\* len(shoe.cards)
ShoeSize(s) == SumTo(s.cards, 13)

\* the ranks Shoe.get_card may pop: the last of the list, which is any card
\* left once the list is shuffled, and the last one appended (the highest
\* rank of the last pass) while it is as built
Poppable(s) ==
    IF s.shuffled THEN {r \in DealtRanks : s.cards[r] > 0}
    ELSE {r \in Ranks : s.cards[r] > 0 /\ \A q \in Ranks : q > r => s.cards[q] < s.cards[r]}

\* Shoe.get_card: the shoe left after popping a card of rank r
get_card(s, r) == [s EXCEPT !.cards[r] = @ - 1]

(***************************************************************************)
(* class Hand                                                              *)
(***************************************************************************)
\* Hand.__init__
Hand(bet) == [cards |-> <<>>, num_aces |-> 0, bet |-> bet, split_ace |-> FALSE]

\* Hand.add
add(hand, card) ==
    [hand EXCEPT !.cards = Append(@, card),
                 !.num_aces = IF card.type = "A" THEN @ + 1 ELSE @]

RECURSIVE SumValues(_)
SumValues(cards) ==
    IF cards = <<>> THEN 0 ELSE Head(cards).value + SumValues(Tail(cards))

\* the while loop of Hand.value
RECURSIVE Soften(_, _)
Soften(real_value, temp) ==
    IF temp > 0 /\ real_value > 21 THEN Soften(real_value - 10, temp - 1)
    ELSE real_value

\* a value() that softens one ace at most
valueOneAce(hand) ==
    LET real_value == SumValues(hand.cards)
    IN  IF hand.num_aces > 0 /\ real_value > 21 THEN real_value - 10 ELSE real_value

\* Hand.value
value(hand) == Soften(SumValues(hand.cards), hand.num_aces)

\* Hand.is_bust
is_bust(hand) == value(hand) > 21

\* Hand.can_split
can_split(hand) ==
    Len(hand.cards) = 2 /\ hand.cards[1].type = hand.cards[2].type

(***************************************************************************)
(* class Dealer                                                            *)
(***************************************************************************)
\* Dealer.__init__ and Dealer.reset
Dealer == [hands |-> <<Hand(0)>>]

\* a dealer who draws on 17
can_hit_on_17(d) == value(d.hands[1]) <= 17

\* Dealer.can_hit
can_hit(d) == value(d.hands[1]) < 17

\* Dealer.bust
dealer_bust(d) == value(d.hands[1]) > 21

(***************************************************************************)
(* class Player                                                            *)
(***************************************************************************)
\* Player.__init__: money = 1000.0
StartMoney == 1000

Player == [hands |-> <<>>, money |-> 2 * StartMoney, blackjack |-> FALSE]

\* Player.is_active
is_active(player) ==
    IF player.blackjack THEN FALSE
    ELSE \E i \in 1..Len(player.hands) : ~is_bust(player.hands[i])

\* a reset that leaves the blackjack flag as it is
player_reset_keeps_flag(player) == [player EXCEPT !.hands = <<>>]

\* Player.reset
player_reset(player) == [player EXCEPT !.hands = <<>>, !.blackjack = FALSE]

\* Player.add_hand
add_hand(player, hand) ==
    [player EXCEPT !.money = @ - 2 * hand.bet, !.hands = Append(@, hand)]

\* Player.double, applied to hand number h of the player
double(player, h) ==
    [player EXCEPT !.money = @ - 2 * player.hands[h].bet,
                   !.hands[h].bet = @ * 2]

\* a split that shares the bet out between the two hands
split_halves_bet(player, h) ==
    LET hand == player.hands[h]
        last == hand.cards[Len(hand.cards)]
        newHand == [add(Hand(hand.bet \div 2), last) EXCEPT !.split_ace = TRUE]
    IN  [player EXCEPT
            !.hands = Append([@ EXCEPT ![h].cards = SubSeq(hand.cards, 1, Len(hand.cards) - 1),
                                       ![h].bet = hand.bet - hand.bet \div 2,
                                       ![h].split_ace = TRUE],
                             newHand)]

\* a split that copies the last card to the new hand and leaves it in hand h
split_copies_card(player, h) ==
    LET hand == player.hands[h]
        last == hand.cards[Len(hand.cards)]
        newHand == [add(Hand(hand.bet), last) EXCEPT !.split_ace = TRUE]
    IN  [player EXCEPT
            !.money = @ - 2 * hand.bet,
            !.hands = Append([@ EXCEPT ![h].split_ace = TRUE], newHand)]

\* Player.split, applied to hand number h (of two cards): the new hand is
\* appended, the last card of hand h moves to it, and both hands are flagged
split(player, h) ==
    LET hand == player.hands[h]
        last == hand.cards[Len(hand.cards)]
        newHand == [add(Hand(hand.bet), last) EXCEPT !.split_ace = TRUE]
    IN  [player EXCEPT
            !.money = @ - 2 * hand.bet,
            !.hands = Append([@ EXCEPT ![h].cards = SubSeq(hand.cards, 1, Len(hand.cards) - 1),
                                       ![h].split_ace = TRUE],
                             newHand)]

\* a win_hand that forgets to give the stake back
win_hand_no_stake(player, hand) ==
    [player EXCEPT !.money =
        @ + (IF player.blackjack THEN 3 * hand.bet ELSE 2 * hand.bet)]

\* Player.win_hand: the bet, and bet * 1.5 more on a blackjack, else the bet
win_hand(player, hand) ==
    [player EXCEPT !.money =
        (@ + 2 * hand.bet) + (IF player.blackjack THEN 3 * hand.bet ELSE 2 * hand.bet)]

\* Player.push_hand
push_hand(player, hand) == [player EXCEPT !.money = @ + 2 * hand.bet]

(***************************************************************************)
(* class Game                                                              *)
(***************************************************************************)
NoTurn == [player |-> 0, hand |-> 0]

\* Game.__init__
Game(num_players) ==
    [shoe |-> Shoe(Max(num_players, 6)),
     players |-> [i \in 1..Max(num_players, 0) |-> Player],
     dealer |-> Dealer]

\* Game.has_active_players
has_active_players(ps) == \E i \in 1..Len(ps) : is_active(ps[i])

\* Game.hit: the hand with the popped card of rank r added
hit(hand, r) == add(hand, Card(r))

\* the orders in which k cards can be popped from shoe s
RECURSIVE Draws(_, _)
Draws(s, k) ==
    IF k = 0 THEN {<<>>}
    ELSE UNION {{<<r>> \o t : t \in Draws(get_card(s, r), k - 1)} : r \in Poppable(s)}

RECURSIVE PopAll(_, _)
PopAll(s, rs) == IF rs = <<>> THEN s ELSE PopAll(get_card(s, Head(rs)), Tail(rs))

\* a check_blackjack that sets the flag after win_hand has paid
check_player_flag_late(player, dealer_blackjack) ==
    IF ~is_active(player) THEN player
    ELSE IF value(player.hands[1]) = 21
         THEN IF dealer_blackjack
              THEN [push_hand(player, player.hands[1]) EXCEPT !.blackjack = TRUE]
              ELSE [win_hand(player, player.hands[1]) EXCEPT !.blackjack = TRUE]
         ELSE player

\* one player's pass of the loop of Game.check_blackjack
check_player(player, dealer_blackjack) ==
    IF ~is_active(player) THEN player
    ELSE IF value(player.hands[1]) = 21
         THEN LET flagged == [player EXCEPT !.blackjack = TRUE]
              IN  IF dealer_blackjack THEN push_hand(flagged, flagged.hands[1])
                  ELSE win_hand(flagged, flagged.hands[1])
         ELSE player

\* Game.check_blackjack: the players after the loop, and the value returned
check_blackjack(ps, d) ==
    LET dealer_blackjack == value(d.hands[1]) = 21
        after == [i \in 1..Len(ps) |-> check_player(ps[i], dealer_blackjack)]
        blackjack == \E i \in 1..Len(ps) : is_active(ps[i]) /\ value(ps[i].hands[1]) = 21
    IN  [players |-> after,
         continues |-> IF blackjack /\ dealer_blackjack THEN FALSE
                       ELSE has_active_players(after)]

\* what main() does once the player turns are over: the dealer's turn and the
\* results if a player is still active, and then "Play again?"
AfterTurns(ps) ==
    IF has_active_players(ps) THEN [pc |-> "dealer", turn |-> NoTurn]
    ELSE [pc |-> "again", turn |-> NoTurn]

\* Game.do_player_turns and the loops of Game.do_player_turn, run from the
\* top of the while loop of hand h of player p to the next prompt: a hand
\* flagged split_ace breaks at once, a player who is not active is passed over
RECURSIVE HandLoop(_, _, _)
RECURSIVE PlayerLoop(_, _)
\* a loop that prompts for a hand flagged split_ace like for any other
HandLoopNoBreak(ps, p, h) ==
    IF h > Len(ps[p].hands) THEN PlayerLoop(ps, p + 1)
    ELSE [pc |-> "turns", turn |-> [player |-> p, hand |-> h]]

HandLoop(ps, p, h) ==
    IF h > Len(ps[p].hands) THEN PlayerLoop(ps, p + 1)
    ELSE IF ps[p].hands[h].split_ace THEN HandLoop(ps, p, h + 1)
    ELSE [pc |-> "turns", turn |-> [player |-> p, hand |-> h]]

PlayerLoop(ps, p) ==
    IF p > Len(ps) THEN AfterTurns(ps)
    ELSE IF is_active(ps[p]) THEN HandLoop(ps, p, 1)
    ELSE PlayerLoop(ps, p + 1)

\* a do_results in which a tie with the dealer wins
RECURSIVE results_hands_tie_wins(_, _, _)
results_hands_tie_wins(player, d, i) ==
    IF i > Len(player.hands) THEN player
    ELSE LET hand == player.hands[i]
         IN  IF is_bust(hand) THEN results_hands_tie_wins(player, d, i + 1)
             ELSE IF dealer_bust(d) \/ value(hand) >= value(d.hands[1])
                  THEN results_hands_tie_wins(win_hand(player, hand), d, i + 1)
             ELSE results_hands_tie_wins(player, d, i + 1)

\* the inner loop of Game.do_results for one player, from hand i on
RECURSIVE results_hands(_, _, _)
results_hands(player, d, i) ==
    IF i > Len(player.hands) THEN player
    ELSE LET hand == player.hands[i]
         IN  IF is_bust(hand) THEN results_hands(player, d, i + 1)
             ELSE IF dealer_bust(d) \/ value(hand) > value(d.hands[1])
                  THEN results_hands(win_hand(player, hand), d, i + 1)
             ELSE IF value(hand) = value(d.hands[1])
                  THEN results_hands(push_hand(player, hand), d, i + 1)
             ELSE results_hands(player, d, i + 1)

\* a do_results that settles the hands of every player, active or not
do_results_all_players(ps, d) ==
    [p \in 1..Len(ps) |-> results_hands(ps[p], d, 1)]

\* Game.do_results: the players after it
do_results(ps, d) ==
    [p \in 1..Len(ps) |-> IF ~is_active(ps[p]) THEN ps[p] ELSE results_hands(ps[p], d, 1)]

\* the lines "<player>'s hand <i> is a win / a push / a loss" of do_results
RECURSIVE result_lines(_, _, _, _)
result_lines(ps, d, p, i) ==
    IF p > Len(ps) THEN <<>>
    ELSE IF ~is_active(ps[p]) \/ i > Len(ps[p].hands) THEN result_lines(ps, d, p + 1, 1)
    ELSE LET hand == ps[p].hands[i]
             line(what) == <<[player |-> p, hand |-> i, is |-> what]>>
         IN  IF is_bust(hand) THEN result_lines(ps, d, p, i + 1)
             ELSE IF dealer_bust(d) \/ value(hand) > value(d.hands[1])
                  THEN line("win") \o result_lines(ps, d, p, i + 1)
             ELSE IF value(hand) = value(d.hands[1])
                  THEN line("push") \o result_lines(ps, d, p, i + 1)
             ELSE line("loss") \o result_lines(ps, d, p, i + 1)

(***************************************************************************)
(* input(): the step read the strings in keys, or the integer number when  *)
(* keys is <<"number">>; a step that waits for no input read nothing       *)
(***************************************************************************)
NoInput == [keys |-> <<>>, number |-> 0]

Read(keys) == input' = [keys |-> keys, number |-> 0]

ReadInt(number) == input' = [keys |-> <<"number">>, number |-> number]

(***************************************************************************)
(* main(): the state after Game(int(user_input)), for each number entered  *)
(***************************************************************************)
Init ==
    \E n \in PlayerCounts :
        /\ shoe = Game(n).shoe
        /\ players = Game(n).players
        /\ dealer = Game(n).dealer
        /\ pc = "start"
        /\ turn = NoTurn
        /\ round = 0
        /\ money0 = [i \in 1..Len(Game(n).players) |-> Game(n).players[i].money]
        /\ printed = <<>>
        /\ input = NoInput

\* main() returns or dies of an exception: the process ends, the game with it
Exit(how) ==
    /\ pc' = how
    /\ turn' = NoTurn
    /\ shoe' = Shoe(0)
    /\ players' = <<>>
    /\ dealer' = Dealer
    /\ money0' = <<>>
    /\ printed' = <<>>
    /\ input' = NoInput
    /\ UNCHANGED round

\* Game.reset at the top of main()'s loop, and Game.start up to the first
\* bet prompt of take_bets (with no player take_bets returns True at once)
reset ==
    /\ dealer' = Dealer
    /\ players' = [i \in 1..Len(players) |-> player_reset(players[i])]
    /\ shoe' = shuffle(Shoe(Len(players)))
    /\ printed' = <<>>
    /\ round' = round + 1
    /\ money0' = [i \in 1..Len(players) |-> players[i].money]
    /\ IF Len(players) = 0
       THEN pc' = "deal" /\ turn' = NoTurn
       ELSE pc' = "bets" /\ turn' = [player |-> 1, hand |-> 0]

\* the first pass of main()'s loop
Start ==
    /\ pc = "start"
    /\ reset
    /\ input' = NoInput

\* Game.take_bets, input "q": take_bets and start return False, and main()
\* goes on to "Play again?"
BetQuit ==
    /\ pc = "bets"
    /\ pc' = "again"
    /\ turn' = NoTurn
    /\ Read(<<"q">>)
    /\ UNCHANGED <<shoe, players, dealer, round, money0, printed>>

\* Game.take_bets, an input int() rejects: "Invalid bet", the same prompt again
BetNotANumber ==
    /\ pc = "bets"
    /\ Read(<<"x">>)
    /\ UNCHANGED game

\* Game.take_bets, an integer input
Bet(bet) ==
    /\ pc = "bets"
    /\ ReadInt(bet)
    /\ IF bet < 0 \/ 2 * bet > players[turn.player].money
       THEN UNCHANGED game
       ELSE /\ players' = [players EXCEPT ![turn.player] = add_hand(@, Hand(bet))]
            /\ IF turn.player < Len(players)
               THEN pc' = "bets" /\ turn' = [player |-> turn.player + 1, hand |-> 0]
               ELSE pc' = "deal" /\ turn' = NoTurn
            /\ UNCHANGED <<shoe, dealer, round, money0, printed>>

\* Game.deal and Game.check_blackjack; popping from an empty shoe raises
\* IndexError, which nothing catches
Deal ==
    /\ pc = "deal"
    /\ IF ShoeSize(shoe) < 2 + 2 * Len(players)
       THEN Exit("crashed")
       ELSE \E rs \in Draws(shoe, 2 + 2 * Len(players)) :
            LET d == [dealer EXCEPT !.hands[1] = hit(hit(@, rs[1]), rs[2])]
                ps == [i \in 1..Len(players) |->
                         [players[i] EXCEPT !.hands[1] = hit(hit(@, rs[2 * i + 1]), rs[2 * i + 2])]]
                chk == check_blackjack(ps, d)
                next == IF chk.continues THEN PlayerLoop(chk.players, 1)
                        ELSE [pc |-> "again", turn |-> NoTurn]
            IN  /\ shoe' = PopAll(shoe, rs)
                /\ dealer' = d
                /\ players' = chk.players
                /\ pc' = next.pc
                /\ turn' = next.turn
                /\ input' = NoInput
                /\ UNCHANGED <<round, money0, printed>>

(***************************************************************************)
(* Game.do_player_turn: one pass of the while loop for the hand prompted,  *)
(* by the input given.                                                     *)
(***************************************************************************)
\* the loop goes on at hand h of player p, with the players as in ps
Continue(ps, p, h) ==
    LET next == HandLoop(ps, p, h)
    IN  /\ players' = ps
        /\ pc' = next.pc
        /\ turn' = next.turn

\* input "h": Game.hit, and break if the hand is bust
Hit ==
    /\ pc = "turns"
    /\ LET p == turn.player
           h == turn.hand
       IN  IF ShoeSize(shoe) = 0
           THEN Exit("crashed")
           ELSE \E r \in Poppable(shoe) :
                LET ps == [players EXCEPT ![p].hands[h] = hit(@, r)]
                IN  /\ shoe' = get_card(shoe, r)
                    /\ Read(<<"h">>)
                    /\ Continue(ps, p, IF is_bust(ps[p].hands[h]) THEN h + 1 ELSE h)
                    /\ UNCHANGED <<dealer, round, money0, printed>>

\* input "s": break
Stand ==
    /\ pc = "turns"
    /\ Continue(players, turn.player, turn.hand + 1)
    /\ Read(<<"s">>)
    /\ UNCHANGED <<shoe, dealer, round, money0, printed>>

\* an "sp" branch that does not look at the money
may_split_unfunded(player, h) ==
    /\ can_split(player.hands[h])
    /\ Len(player.hands) < 4

\* the guard of the "sp" branch
may_split(player, h) ==
    /\ can_split(player.hands[h])
    /\ Len(player.hands) < 4
    /\ player.money >= 2 * player.hands[h].bet

\* input "sp": Player.split and a card to each of the two hands, or one of
\* the three refusals and the same prompt again
Split ==
    /\ pc = "turns"
    /\ LET p == turn.player
           h == turn.hand
       IN  IF ~may_split(players[p], h)
           THEN Read(<<"sp">>) /\ UNCHANGED game
           ELSE IF ShoeSize(shoe) < 2
           THEN Exit("crashed")
           ELSE \E rs \in Draws(shoe, 2) :
                LET sp == split(players[p], h)
                    new == Len(sp.hands)
                    ps == [players EXCEPT ![p] =
                             [sp EXCEPT !.hands[h] = hit(@, rs[1]),
                                        !.hands[new] = hit(@, rs[2])]]
                IN  /\ shoe' = PopAll(shoe, rs)
                    /\ Continue(ps, p, h)
                    /\ Read(<<"sp">>)
                    /\ UNCHANGED <<dealer, round, money0, printed>>

\* a "d" branch that does not look at the money
may_double_unchecked(player, h) == h <= Len(player.hands)

\* the guard of the "d" branch
may_double(player, h) == player.money >= 2 * player.hands[h].bet

\* a "d" branch without its break: the loop goes on at the same hand
DoubleNoBreak ==
    /\ pc = "turns"
    /\ LET p == turn.player
           h == turn.hand
       IN  IF ~may_double(players[p], h)
           THEN Read(<<"d">>) /\ UNCHANGED game
           ELSE IF ShoeSize(shoe) = 0
           THEN Exit("crashed")
           ELSE \E r \in Poppable(shoe) :
                LET ps == [players EXCEPT ![p] = [double(@, h) EXCEPT !.hands[h] = hit(@, r)]]
                IN  /\ shoe' = get_card(shoe, r)
                    /\ Continue(ps, p, h)
                    /\ Read(<<"d">>)
                    /\ UNCHANGED <<dealer, round, money0, printed>>

\* input "d": Player.double, one card and break, or "Not enough money to
\* double" and the same prompt again
Double ==
    /\ pc = "turns"
    /\ LET p == turn.player
           h == turn.hand
       IN  IF ~may_double(players[p], h)
           THEN Read(<<"d">>) /\ UNCHANGED game
           ELSE IF ShoeSize(shoe) = 0
           THEN Exit("crashed")
           ELSE \E r \in Poppable(shoe) :
                LET ps == [players EXCEPT ![p] = [double(@, h) EXCEPT !.hands[h] = hit(@, r)]]
                IN  /\ shoe' = get_card(shoe, r)
                    /\ Continue(ps, p, h + 1)
                    /\ Read(<<"d">>)
                    /\ UNCHANGED <<dealer, round, money0, printed>>

\* input "q" and the answer to "Are you sure you want to quit?": on "y"
\* do_player_turns returns False and main() returns
Quit(answer) ==
    /\ pc = "turns"
    /\ IF answer = "y"
       THEN Exit("done")
       ELSE Read(<<"q", answer>>) /\ UNCHANGED game

\* any other input: "Invalid input", the same prompt again
InvalidInput ==
    /\ pc = "turns"
    /\ Read(<<"x">>)
    /\ UNCHANGED game

(***************************************************************************)
(* Game.do_dealer_turn, one draw at a time, and Game.do_results            *)
(***************************************************************************)
DealerHit ==
    /\ pc = "dealer"
    /\ can_hit(dealer)
    /\ IF ShoeSize(shoe) = 0
       THEN Exit("crashed")
       ELSE /\ \E r \in Poppable(shoe) :
                /\ shoe' = get_card(shoe, r)
                /\ dealer' = [dealer EXCEPT !.hands[1] = hit(@, r)]
            /\ input' = NoInput
            /\ UNCHANGED <<players, pc, turn, round, money0, printed>>

DealerStand ==
    /\ pc = "dealer"
    /\ ~can_hit(dealer)
    /\ pc' = "results"
    /\ input' = NoInput
    /\ UNCHANGED <<shoe, players, dealer, turn, round, money0, printed>>

Results ==
    /\ pc = "results"
    /\ players' = do_results(players, dealer)
    /\ printed' = result_lines(players, dealer, 1, 1)
    /\ pc' = "again"
    /\ input' = NoInput
    /\ UNCHANGED <<shoe, dealer, turn, round, money0>>

(***************************************************************************)
(* main(): "Play again? y/n"                                               *)
(***************************************************************************)
PlayAgain(answer) ==
    /\ pc = "again"
    /\ IF answer = "y"
       THEN /\ round < RoundsOf(Len(players))
            /\ reset
            /\ Read(<<"y">>)
       ELSE IF answer = "n"
       THEN Exit("done")
       ELSE Read(<<answer>>) /\ UNCHANGED game

Answers == {"y", "n", "x"}

Next ==
    \/ Start
    \/ BetQuit
    \/ BetNotANumber
    \/ \E bet \in BetAmounts : Bet(bet)
    \/ Deal
    \/ Hit
    \/ Stand
    \/ Split
    \/ Double
    \/ \E answer \in Answers : Quit(answer)
    \/ InvalidInput
    \/ DealerHit
    \/ DealerStand
    \/ Results
    \/ \E answer \in Answers : PlayAgain(answer)

Spec == Init /\ [][Next]_vars

\* do_dealer_turn waits for no input: its loop runs on until can_hit is False,
\* and do_results follows at once
FairSpec == Spec /\ WF_vars(DealerHit) /\ WF_vars(DealerStand) /\ WF_vars(Results)

(***************************************************************************)
(* Properties.  Totals are computed here from the cards alone, not from    *)
(* the hand's num_aces field.                                              *)
(***************************************************************************)
AcesIn(cards) == Cardinality({i \in DOMAIN cards : cards[i].type = "A"})

RECURSIVE HardTotal(_)
HardTotal(cards) ==
    IF cards = <<>> THEN 0
    ELSE (IF Head(cards).type = "A" THEN 1 ELSE Head(cards).value) + HardTotal(Tail(cards))

\* the totals obtainable by counting each ace as 1 or as 11
Totals(cards) == {HardTotal(cards) + 10 * k : k \in 0..AcesIn(cards)}

\* the highest total not above 21, or the total with every ace counted as 1
BestTotal(cards) ==
    IF \E t \in Totals(cards) : t <= 21
    THEN CHOOSE t \in Totals(cards) : t <= 21 /\ \A u \in Totals(cards) : u <= 21 => u <= t
    ELSE HardTotal(cards)

HandsOf(ps) == UNION {{ps[p].hands[i] : i \in 1..Len(ps[p].hands)} : p \in 1..Len(ps)}

AllHands == {dealer.hands[1]} \cup HandsOf(players)

\* C1: in every state every hand's value() is the best total of its cards;
\* so is the value of each hand Player.split leaves, before the hand is dealt
\* its next card, wherever the "sp" branch would split.
C1_ValueIsBestTotal ==
    /\ \A hand \in AllHands : value(hand) = BestTotal(hand.cards)
    /\ pc = "turns" /\ may_split(players[turn.player], turn.hand) =>
          \A hand \in HandsOf(<<split(players[turn.player], turn.hand)>>) :
              value(hand) = BestTotal(hand.cards)

\* C1 witness: the hand left behind by a split of aces was dealt another
\* ace: it holds two aces, counts three, and is worth 12
C1_Witness ==
    \E hand \in HandsOf(players) :
        /\ hand.split_ace
        /\ Len(hand.cards) = 2
        /\ AcesIn(hand.cards) = 2
        /\ hand.num_aces = 3
        /\ value(hand) = 12

Total(hand) == BestTotal(hand.cards)

\* what settlement owes a hand: nothing to a bust hand, a win against a bust
\* dealer or a lower dealer total, a push on equal totals, else a loss
Owed(hand, d) ==
    IF Total(hand) > 21 THEN "none"
    ELSE IF Total(d.hands[1]) > 21 \/ Total(hand) > Total(d.hands[1]) THEN "win"
    ELSE IF Total(hand) = Total(d.hands[1]) THEN "push"
    ELSE "loss"

\* the credit in half units: stake and as much again, the stake, or nothing
CreditOf(what, bet) == IF what = "win" THEN 4 * bet ELSE IF what = "push" THEN 2 * bet ELSE 0

LinesFor(lines, p, i) ==
    {lines[k].is : k \in {j \in DOMAIN lines : lines[j].player = p /\ lines[j].hand = i}}

\* C2: do_results credits every hand of an active player what it is owed
\* and prints it as that: a bust hand gets no credit and no line, a hand
\* above the dealer or against a bust dealer wins, an equal hand pushes, a
\* lower hand loses without credit; a player whose hands are all bust is
\* credited nothing whatever the dealer holds.
C2_Settlement ==
    [][pc = "results" =>
        \A p \in 1..Len(players) :
            LET hands == players[p].hands
                owed == [i \in 1..Len(hands) |-> Owed(hands[i], dealer)]
                credit == [i \in 1..Len(hands) |-> CreditOf(owed[i], hands[i].bet)]
            IN  /\ is_active(players[p]) =>
                    /\ players'[p].money - players[p].money = SumTo(credit, Len(hands))
                    /\ \A i \in 1..Len(hands) :
                          LinesFor(printed', p, i) = IF owed[i] = "none" THEN {} ELSE {owed[i]}
                /\ (\A i \in 1..Len(hands) : owed[i] = "none") =>
                    /\ players'[p].money = players[p].money
                    /\ \A i \in 1..Len(hands) : LinesFor(printed', p, i) = {}]_vars

\* C2 witness: results are out after the dealer went bust, with one player's
\* hand bust and uncredited and another player's hand a win
C2_Witness ==
    /\ pc = "again"
    /\ Total(dealer.hands[1]) > 21
    /\ \E p, q \in 1..Len(players) :
        /\ Total(players[p].hands[1]) > 21
        /\ players[p].money = money0[p] - 2 * players[p].hands[1].bet
        /\ [player |-> q, hand |-> 1, is |-> "win"] \in {printed[k] : k \in DOMAIN printed}

\* the net result, in half units, of hand i of player p once the round is
\* over, as the claims state it: plus the bet on a win, nothing on a push,
\* minus the bet otherwise
NetOf(p, i) ==
    LET bet == players[p].hands[i].bet
    IN  IF "win" \in LinesFor(printed, p, i) THEN 2 * bet
        ELSE IF "push" \in LinesFor(printed, p, i) THEN 0
        ELSE 0 - 2 * bet

\* C3: when a round is over, a player without a blackjack has gained, since
\* the round began, the final bet of each hand that won, nothing for each
\* hand that pushed, and has lost the final bet of every other hand.
C3_WinPaysOneToOne ==
    pc = "again" =>
        \A p \in 1..Len(players) :
            ~players[p].blackjack =>
                players[p].money - money0[p] =
                    SumTo([i \in 1..Len(players[p].hands) |-> NetOf(p, i)], Len(players[p].hands))

\* C3 witness: a round is over in which a player split, one hand won and the
\* other pushed, and the player is up by exactly one bet
C3_Witness ==
    /\ pc = "again"
    /\ \E p \in 1..Len(players) :
        /\ Len(players[p].hands) = 2
        /\ LinesFor(printed, p, 1) \cup LinesFor(printed, p, 2) = {"win", "push"}
        /\ players[p].hands[1].bet = 500
        /\ players[p].money - money0[p] = 2 * 500

\* the first two cards of a hand
Dealt(hand) == SubSeq(hand.cards, 1, 2)

\* player p holds the two cards of the deal, and they total 21
Natural(p) ==
    /\ Len(players[p].hands) >= 1
    /\ Len(players[p].hands[1].cards) = 2
    /\ ~players[p].hands[1].split_ace
    /\ BestTotal(players[p].hands[1].cards) = 21

DealerNatural ==
    Len(dealer.hands[1].cards) >= 2 /\ BestTotal(Dealt(dealer.hands[1])) = 21

\* C4: from the deal on, a player whose two dealt cards total 21 is flagged,
\* is never prompted for an action, and is even on the round if the dealer's
\* two cards total 21 too, else up by 1.5 times the bet.
C4_BlackjackSettled ==
    \A p \in 1..Len(players) :
        Natural(p) =>
            /\ players[p].blackjack
            /\ Len(players[p].hands) = 1
            /\ ~(pc = "turns" /\ turn.player = p)
            /\ players[p].money - money0[p] =
                  IF DealerNatural THEN 0 ELSE 3 * players[p].hands[1].bet

\* C4 witness: the first of two players holds a blackjack against a dealer
\* without one and is up by 750 on a bet of 500, and the second is prompted
C4_Witness ==
    /\ pc = "turns"
    /\ Len(players) = 2
    /\ turn.player = 2
    /\ Natural(1)
    /\ ~DealerNatural
    /\ players[1].hands[1].bet = 500
    /\ players[1].money - money0[1] = 1500

\* C5 as claimed: a hand is flagged split_ace only if it comes from a split
\* of aces, so that the first card of a flagged hand is an ace.
C5_FlagOnlyForAces ==
    \A hand \in HandsOf(players) : hand.split_ace => hand.cards[1].type = "A"

\* C6: a hand that comes from a split of aces holds exactly two cards once
\* the split is done, the player has no third hand, and the hand is never
\* the one prompted for an action.
C6_AceSplitTerminal ==
    \A p \in 1..Len(players) :
        \A i \in 1..Len(players[p].hands) :
            LET hand == players[p].hands[i]
            IN  hand.split_ace /\ hand.cards[1].type = "A" =>
                    /\ Len(hand.cards) = 2
                    /\ Len(players[p].hands) = 2
                    /\ players[p].hands[1].bet = players[p].hands[2].bet
                    /\ ~(pc = "turns" /\ turn = [player |-> p, hand |-> i])

\* C6 witness: the first of two players has split aces and the second is
\* being prompted
C6_Witness ==
    /\ pc = "turns"
    /\ turn.player = 2
    /\ Len(players[1].hands) = 2
    /\ \A i \in 1..2 :
        /\ players[1].hands[i].split_ace
        /\ players[1].hands[i].cards[1].type = "A"
        /\ Len(players[1].hands[i].cards) = 2

\* C7: wherever the "sp" branch splits hand h, Player.split appends one
\* hand, leaves the first card of the pair alone in hand h and the second
\* alone in the new hand, gives both the bet of hand h, takes that bet once
\* from the money and leaves every other hand as it was; after the step each
\* of the two hands holds its card of the pair and the one card dealt to it.
C7_Split ==
    [][pc = "turns" /\ pc' # "done" /\ pc' # "crashed"
          /\ Len(players'[turn.player].hands) # Len(players[turn.player].hands) =>
        LET p == turn.player
            h == turn.hand
            old == players[p].hands
            sp == split(players[p], h)
            new == Len(old) + 1
            now == players'[p].hands
        IN  /\ Len(old[h].cards) = 2
            /\ Len(sp.hands) = new
            /\ sp.hands[h].cards = <<old[h].cards[1]>>
            /\ sp.hands[new].cards = <<old[h].cards[2]>>
            /\ sp.hands[h].bet = old[h].bet
            /\ sp.hands[new].bet = old[h].bet
            /\ sp.money = players[p].money - 2 * old[h].bet
            /\ \A i \in 1..Len(old) : i # h => sp.hands[i] = old[i]
            /\ Len(now) = new
            /\ Len(now[h].cards) = 2 /\ now[h].cards[1] = old[h].cards[1]
            /\ Len(now[new].cards) = 2 /\ now[new].cards[1] = old[h].cards[2]
            /\ now[h].bet = old[h].bet /\ now[new].bet = old[h].bet
            /\ players'[p].money = players[p].money - 2 * old[h].bet]_vars

\* C7 witness: a pair of 8s bet at 500 has been split: two hands, an 8 first
\* in each, 500 on each, and 1000 gone from the money of the round's start
C7_Witness ==
    \E p \in 1..Len(players) :
        /\ Len(players[p].hands) = 2
        /\ \A i \in 1..2 :
            /\ players[p].hands[i].cards[1].type = "8"
            /\ players[p].hands[i].bet = 500
        /\ players[p].money = money0[p] - 2 * 1000

\* C8 as claimed: no player is prompted for an action in a round in which
\* the dealer's two cards total 21.
C8_NoTurnsOnDealerBlackjack == pc = "turns" => ~DealerNatural

DealerCards == dealer.hands[1].cards

\* C9 as claimed, its last sentence: outside the dealer turn the dealer, once
\* dealt, holds exactly the two cards of the initial deal.
C9_TwoCardsOutsideDealerTurn ==
    pc # "dealer" /\ DealerCards # <<>> => Len(DealerCards) = 2

\* C9: the dealer turn is entered only with a player still active; every
\* draw of it is made on a total below 17 and adds one card; it ends, and
\* with a total of at least 17; the dealer holds exactly the two cards of
\* the deal while the players are prompted, and only the deal, a draw of the
\* dealer turn and the end of the round change the dealer's hand.
C9_DealerTurn ==
    /\ [](pc \in {"dealer", "results"} => has_active_players(players))
    /\ [](pc = "results" => BestTotal(DealerCards) >= 17)
    /\ [](pc = "turns" => Len(DealerCards) = 2)
    /\ [][dealer' # dealer =>
            \/ pc = "deal" /\ Len(DealerCards) = 0 /\ Len(dealer'.hands[1].cards) = 2
            \/ /\ pc = "dealer" /\ pc' = "dealer"
               /\ BestTotal(DealerCards) < 17
               /\ Len(dealer'.hands[1].cards) = Len(DealerCards) + 1
               /\ SubSeq(dealer'.hands[1].cards, 1, Len(DealerCards)) = DealerCards
            \/ pc \in {"turns", "again"} /\ dealer' = Dealer]_vars
    /\ (pc = "dealer" ~> pc = "results")

\* C9 witness: the dealer turn is over after two draws, on 17 or more
C9_Witness ==
    /\ pc = "results"
    /\ Len(DealerCards) = 4
    /\ BestTotal(DealerCards) >= 17
    /\ BestTotal(SubSeq(DealerCards, 1, 3)) < 17

\* C10: no player's money is ever below zero.
C10_MoneyNonNegative == \A p \in 1..Len(players) : players[p].money >= 0

\* C10 witness: a player with a bet of 500 on the table and no money left is
\* prompted, and a double would be refused
C10_Witness ==
    /\ pc = "turns"
    /\ players[turn.player].money = 0
    /\ players[turn.player].hands[turn.hand].bet = 500
    /\ ~may_double(players[turn.player], turn.hand)

\* C11 as claimed: a "q" at a bet prompt ends the session: the step that
\* reads it leaves main(), with no prompt and no round after it.
C11_BetQuitEndsSession ==
    [][pc = "bets" /\ input'.keys = <<"q">> => pc' = "done"]_vars

\* C12 as claimed: a round starts (at its first bet prompt, or at the deal
\* when nobody bets) on a shuffled shoe of at least six decks: 312 cards or
\* more, 24 or more of each rank.
C12_SixDecksAtRoundStart ==
    pc = "bets" \/ (pc = "deal" /\ Len(players) = 0) =>
        /\ shoe.shuffled
        /\ ShoeSize(shoe) >= 312
        /\ \A r \in Ranks : shoe.cards[r] >= 24

C14_InvalidInputChangesNothing ==
    [][LET keys == input'.keys
           player == players[turn.player]
           hand == player.hands[turn.hand]
           pair == Len(hand.cards) = 2 /\ hand.cards[1].type = hand.cards[2].type
           short == player.money < 2 * hand.bet
           badBet ==
               /\ pc = "bets"
               /\ \/ keys = <<"x">>
                  \/ keys = <<"number">> /\ input'.number < 0
                  \/ keys = <<"number">> /\ 2 * input'.number > player.money
           badAction ==
               /\ pc = "turns"
               /\ \/ keys = <<"x">>
                  \/ keys = <<"sp">> /\ (~pair \/ Len(player.hands) >= 4 \/ short)
                  \/ keys = <<"d">> /\ short
       IN  badBet \/ badAction => UNCHANGED game]_vars

\* C14 witness: the one player of a game has just been refused the split of
\* a pair for want of money, and the hand is prompted again
C14_Witness ==
    /\ Len(players) = 1
    /\ pc = "turns"
    /\ input.keys = <<"sp">>
    /\ can_split(players[1].hands[turn.hand])
    /\ players[1].money < 2 * players[1].hands[turn.hand].bet

\* C15 as claimed: no Shoe of less than one deck comes to exist, and no
\* round is played on an empty shoe: from the first reset until main() is
\* left the shoe holds at least one card.
C15_NoRoundOnEmptyShoe ==
    round >= 1 /\ pc \notin {"done", "crashed"} => ShoeSize(shoe) >= 1

\* the number of copies of card c among the cards
CountIn(cards, c) == Cardinality({i \in DOMAIN cards : cards[i] = c})

RECURSIVE HeldIn(_, _)
HeldIn(hands, c) ==
    IF hands = <<>> THEN 0 ELSE CountIn(Head(hands).cards, c) + HeldIn(Tail(hands), c)

RECURSIVE HeldBy(_, _)
HeldBy(ps, c) ==
    IF ps = <<>> THEN 0 ELSE HeldIn(Head(ps).hands, c) + HeldBy(Tail(ps), c)

\* the copies of card c in the hands of the dealer and of the players
Held(c) == HeldIn(dealer.hands, c) + HeldBy(players, c)

\* C16: from a reset on, the copies of each rank left in the shoe and held
\* in the hands together are those of the shoe the reset built, four a
\* player; wherever the "sp" branch would split, Player.split leaves the
\* player's hands holding the same cards; and within a round no step adds
\* a card of any rank to the shoe.
C16_CardsConserved ==
    /\ [](pc # "start" =>
            \A r \in Ranks : shoe.cards[r] + Held(Card(r)) = 4 * Len(players))
    /\ [](pc = "turns" /\ may_split(players[turn.player], turn.hand) =>
            \A r \in Ranks :
                HeldIn(split(players[turn.player], turn.hand).hands, Card(r))
                    = HeldIn(players[turn.player].hands, Card(r)))
    /\ [][round' = round /\ pc' \notin {"done", "crashed"} =>
            \A r \in Ranks : shoe'.cards[r] <= shoe.cards[r]]_vars

\* C16 witness: in a one-player game a split has been played: two hands of
\* two cards, the dealer's two, and 46 cards left of the 52
C16_Witness ==
    /\ Len(players) = 1
    /\ Len(players[1].hands) = 2
    /\ Len(players[1].hands[1].cards) = 2
    /\ Len(players[1].hands[2].cards) = 2
    /\ ShoeSize(shoe) = 46

\* C17: a hand's bet is an amount entered at a bet prompt or twice one; it
\* changes only in a step that reads "d" for the hand prompted, which
\* doubles it, takes the old bet from the money, adds one card to the hand
\* and prompts that hand no more; the prompt never goes back to an earlier
\* hand, and a hand that is not the one prompted is changed by no step
\* between the deal and the end of the round.
C17_BetDoublesAtMostOnce ==
    /\ [](\A hand \in HandsOf(players) :
            \E bet \in BetAmounts : bet >= 0 /\ hand.bet \in {bet, 2 * bet})
    /\ [][round' = round /\ pc' \notin {"done", "crashed"} =>
            \A p \in 1..Len(players) :
                \A i \in 1..Len(players[p].hands) :
                    LET old == players[p].hands[i]
                        new == players'[p].hands[i]
                        prompted == pc = "turns" /\ turn = [player |-> p, hand |-> i]
                    IN  /\ new # old => prompted \/ pc = "deal"
                        /\ new.bet # old.bet =>
                              /\ prompted
                              /\ input'.keys = <<"d">>
                              /\ new.bet = 2 * old.bet
                              /\ players'[p].money = players[p].money - 2 * old.bet
                              /\ Len(new.cards) = Len(old.cards) + 1
                              /\ SubSeq(new.cards, 1, Len(old.cards)) = old.cards
                              /\ ~(pc' = "turns" /\ turn' = turn)]_vars
    /\ [][pc = "turns" /\ pc' = "turns" =>
            \/ turn'.player > turn.player
            \/ turn'.player = turn.player /\ turn'.hand >= turn.hand]_vars

\* C17 witness: a hand was doubled from 500 to 1000 and went bust on the
\* card of the double, and the round is over
C17_Witness ==
    /\ pc = "again"
    /\ \E hand \in HandsOf(players) :
        /\ hand.bet = 1000
        /\ Len(hand.cards) >= 3
        /\ Total(hand) > 21

\* C18 as claimed: every hand's num_aces is the number of aces among its
\* cards.
C18_NumAcesCountsAces ==
    \A hand \in AllHands : hand.num_aces = AcesIn(hand.cards)

\* the net result of hand i of player p once the round is over: that of a
\* blackjack for a flagged player, else that of the results
SettledNet(p, i) ==
    IF players[p].blackjack
    THEN IF DealerNatural THEN 0 ELSE 3 * players[p].hands[i].bet
    ELSE NetOf(p, i)

\* C19: a player's money goes up only in the deal, for a player flagged
\* with a blackjack there, or in do_results, for a player not flagged; so
\* no hand is credited twice, and when a dealt round is over each player is
\* up or down by the sum over the hands of minus the bet, nothing, the bet
\* or 1.5 times the bet.
C19_CreditedAtMostOnce ==
    /\ [](pc = "again" /\ DealerCards # <<>> =>
            \A p \in 1..Len(players) :
                LET hands == players[p].hands
                IN  /\ \A i \in 1..Len(hands) :
                          SettledNet(p, i) \in {0 - 2 * hands[i].bet, 0, 2 * hands[i].bet,
                                                3 * hands[i].bet}
                    /\ players[p].money - money0[p] =
                          SumTo([i \in 1..Len(hands) |-> SettledNet(p, i)], Len(hands)))
    /\ [][round' = round /\ pc' \notin {"done", "crashed"} =>
            \A p \in 1..Len(players) :
                players'[p].money > players[p].money =>
                    \/ pc = "deal" /\ players'[p].blackjack
                    \/ pc = "results" /\ ~players[p].blackjack]_vars

\* C19 witness: results are out for the second of two players while the
\* first, paid for a blackjack at the deal, is up by 750 on a bet of 500
C19_Witness ==
    /\ pc = "again"
    /\ Len(players) = 2
    /\ players[1].blackjack
    /\ LinesFor(printed, 2, 1) # {}
    /\ players[1].hands[1].bet = 500
    /\ players[1].money - money0[1] = 1500

\* C20: a step that resets the game leaves the dealer one hand without
\* cards, every player without hands, unflagged and with the money held
\* before the step, the number of players as it was, and the shoe shuffled
\* and full, with every rank as often as every other and no card out.
C20_ResetClearsRoundOnly ==
    [][round' = round + 1 =>
        /\ Len(dealer'.hands) = 1
        /\ dealer'.hands[1].cards = <<>>
        /\ Len(players') = Len(players)
        /\ \A p \in 1..Len(players) :
              /\ players'[p].hands = <<>>
              /\ ~players'[p].blackjack
              /\ players'[p].money = players[p].money
        /\ shoe'.shuffled
        /\ \A r \in Ranks : shoe'.cards[r] = 4 * Len(players)
        /\ printed' = <<>>]_vars

\* C20 witness: the second round has just been reset after a round that
\* paid the player a blackjack on a bet of 500
C20_Witness ==
    /\ round = 2
    /\ pc = "bets"
    /\ input.keys = <<"y">>
    /\ players[1].hands = <<>>
    /\ ~players[1].blackjack
    /\ players[1].money = 2000 + 1500

====
